---- MODULE Spec2Model ----
(***************************************************************************)
(* Model of src/src/aadhar_deep_analysis.py: a batch pipeline over one     *)
(* table (df).  Each numbered section of the script is one action; pc      *)
(* names the section that runs next.                                       *)
(*                                                                         *)
(* Number representation                                                   *)
(*   a raw count            <<>> (non-numeric, NaN after to_numeric) or    *)
(*                          <<v>>                                          *)
(*   a ratio (youth_ratio, persistence, state average)  <<num, den>>       *)
(*   shock_score            <<>> (NaN) or <<dev, p, q>>, the value being   *)
(*                          dev * sqrt(p / q)                              *)
(*   confidence, impact     <<"nan">>, <<"ninf">> or <<"fin", thousandths>>*)
(*   peer_deviation         thousandths, data_trust_score hundredths       *)
(*                                                                         *)
(* The code rounds doubles.  A value that lies exactly half way between    *)
(* two results is rounded up or down by the error of the double            *)
(* arithmetic before it, so the model allows both neighbours there.        *)
(***************************************************************************)
EXTENDS Integers, Sequences, FiniteSets, TLC

VARIABLES pc, raw, df, district_risk, policy_alerts, early_warning_zones

vars == <<pc, raw, df, district_risk, policy_alerts, early_warning_zones>>

\* Largest number of rows of the loaded table.
MaxRecords == 2

\* Largest number of rows of the tables drawn for the feature builder and for
\* the aggregation on their own.
MaxRows == 3

\* Largest magnitude of the impact_score (in thousandths) given to the policy
\* engine on its own: scores run from -MaxScore to 2 * MaxScore.
MaxScore == 1000

NaN == <<>>

NaT == 0

IsNaN(x) == x = <<>>

Abs(x) == IF x < 0 THEN 0 - x ELSE x

\* The sequences of length 0..n over S.
SeqUpTo(S, n) == UNION {[1..k -> S] : k \in 0..n}

RECURSIVE SumSeq(_)
SumSeq(s) == IF s = <<>> THEN 0 ELSE Head(s) + SumSeq(Tail(s))

\* round() of n/d: the nearest integer; on an exact half, either neighbour
\* (the double holding the value lies on one side or the other).
Roundings(n, d) ==
    LET nn == IF d < 0 THEN 0 - n ELSE n
        dd == Abs(d)
        q  == nn \div dd
        r  == nn - q * dd
    IN  IF 2 * r < dd THEN {q}
        ELSE IF 2 * r > dd THEN {q + 1}
        ELSE {q, q + 1}

\* The tables that take, at every position i, one of the values C[i].
PickEach(C) ==
    {f \in [1..Len(C) -> UNION {C[i] : i \in 1..Len(C)}] :
        \A i \in 1..Len(C) : f[i] \in C[i]}

(***************************************************************************)
(* 3. CLEAN & PREP                                                         *)
(***************************************************************************)

\* A non-numeric count taken as 0 in the sum.
TotalPopulationNaNAsZero(r) ==
    <<(IF IsNaN(r.demo_age_5_17) THEN 0 ELSE r.demo_age_5_17[1])
      + (IF IsNaN(r.demo_age_17_) THEN 0 ELSE r.demo_age_17_[1])>>

\* demo_age_5_17 + demo_age_17_ after to_numeric(errors="coerce"): NaN when
\* either count is NaN.
TotalPopulation(r) ==
    IF IsNaN(r.demo_age_5_17) \/ IsNaN(r.demo_age_17_) THEN NaN
    ELSE <<r.demo_age_5_17[1] + r.demo_age_17_[1]>>

\* dropna(subset=["date"])
HasDate(r) == r.date # NaT

\* df[df["total_population"] > 0]: a comparison with NaN is False.
PositiveTotal(r) == ~IsNaN(TotalPopulation(r)) /\ TotalPopulation(r)[1] > 0

\* The adult count taken as the denominator.
YouthRatioOverAdults(r) ==
    IF IsNaN(r.demo_age_5_17) \/ IsNaN(r.demo_age_17_) THEN NaN
    ELSE <<r.demo_age_5_17[1], r.demo_age_17_[1]>>

\* demo_age_5_17 / total_population; NaN when either is NaN.
YouthRatio(r) ==
    IF IsNaN(r.demo_age_5_17) \/ IsNaN(TotalPopulation(r)) THEN NaN
    ELSE <<r.demo_age_5_17[1], TotalPopulation(r)[1]>>

CleanRow(r) ==
    [idx |-> r.idx, date |-> r.date, state |-> r.state, district |-> r.district,
     pincode |-> r.pincode,
     demo_age_5_17 |-> r.demo_age_5_17, demo_age_17_ |-> r.demo_age_17_,
     total_population |-> TotalPopulation(r)[1],
     youth_ratio |-> YouthRatio(r)]

CleanTable(t) ==
    LET kept == SelectSeq(SelectSeq(t, HasDate), PositiveTotal)
    IN  [i \in 1..Len(kept) |-> CleanRow(kept[i])]

Clean ==
    /\ pc = "clean"
    /\ df' = CleanTable(df)
    /\ pc' = "temporal"
    /\ UNCHANGED <<raw, district_risk, policy_alerts, early_warning_zones>>

(***************************************************************************)
(* 4. TEMPORAL FEATURES                                                    *)
(***************************************************************************)

RowOrders(n) == {p \in [1..n -> 1..n] : \A i, j \in 1..n : i # j => p[i] # p[j]}

\* sort_values("date") uses the default, unstable sort: any date-ordered
\* arrangement of the rows.
SortedByDate(t) ==
    {[i \in 1..Len(t) |-> t[p[i]]] : p \in
        {q \in RowOrders(Len(t)) :
            \A i \in 1..Len(t) - 1 : t[q[i]].date <= t[q[i + 1]].date}}

\* Positions of the rows of group g, in table order.
RECURSIVE GroupPositions(_, _, _)
GroupPositions(t, g, from) ==
    IF from > Len(t) THEN <<>>
    ELSE IF t[from].pincode = g THEN <<from>> \o GroupPositions(t, g, from + 1)
         ELSE GroupPositions(t, g, from + 1)

\* Series.diff() within one group: NaN for its first row.
GroupDiff(t, pos) ==
    [k \in 1..Len(pos) |->
        IF k = 1 THEN NaN
        ELSE <<t[pos[k]].total_population - t[pos[k - 1]].total_population>>]

\* Position of a row inside its group's position list.
RankIn(pos, i) == CHOOSE k \in 1..Len(pos) : pos[k] = i

\* diff() over the whole column, ignoring the grouping.
PopChangeUngrouped(t, i) ==
    LET d == IF i = 1 THEN NaN
             ELSE <<t[i].total_population - t[i - 1].total_population>>
    IN  IF IsNaN(d) THEN 0 ELSE d[1]

\* groupby("pincode")["total_population"].diff().fillna(0) at row i.
PopChange(t, i) ==
    LET pos == GroupPositions(t, t[i].pincode, 1)
        d   == GroupDiff(t, pos)[RankIn(pos, i)]
    IN  IF IsNaN(d) THEN 0 ELSE d[1]

PopChanges(t) == [i \in 1..Len(t) |-> t[i].pop_change]

Squares(s) == [i \in 1..Len(s) |-> s[i] * s[i]]

\* n * sum(x^2) - sum(x)^2: n*(n-1) times the sample variance (ddof = 1).
ScaledVariance(s) == Len(s) * SumSeq(Squares(s)) - SumSeq(s) * SumSeq(s)

\* std() is NaN for fewer than two rows; 0 when all values are equal.
SigmaUndefined(s) == Len(s) < 2

SigmaZero(s) == Len(s) >= 2 /\ ScaledVariance(s) = 0

\* (pop_change - mu) / sigma: x/NaN and 0/0 are NaN.
ShockScore(s, x) ==
    IF SigmaUndefined(s) \/ SigmaZero(s) THEN NaN
    ELSE <<Len(s) * x - SumSeq(s), Len(s) - 1, Len(s) * ScaledVariance(s)>>

\* abs(shock) >= k and abs(shock) > k; False for NaN.
ShockAbsGE(z, k) == ~IsNaN(z) /\ z[1] * z[1] * z[2] >= k * k * z[3]

ShockAbsGT(z, k) == ~IsNaN(z) /\ z[1] * z[1] * z[2] > k * k * z[3]

WithPopChange(t) ==
    [i \in 1..Len(t) |-> [pop_change |-> PopChange(t, i)] @@ t[i]]

WithShock(t) ==
    [i \in 1..Len(t) |->
        [shock_score |-> ShockScore(PopChanges(t), t[i].pop_change)] @@ t[i]]

Temporal ==
    /\ pc = "temporal"
    /\ \E sorted \in SortedByDate(df) : df' = WithShock(WithPopChange(sorted))
    /\ pc' = "model"
    /\ UNCHANGED <<raw, district_risk, policy_alerts, early_warning_zones>>

(***************************************************************************)
(* 5-6. ML FEATURE MATRIX, ISOLATION FOREST                                *)
(* The forest is library code: its flag and score are any values of small  *)
(* sets.  A table with no rows makes StandardScaler raise, which ends the  *)
(* run.                                                                    *)
(***************************************************************************)

Flags == {-1, 1}

Scores == {-1, 0, 1}

WithModel(t, out) ==
    [i \in 1..Len(t) |->
        [ml_flag |-> out[i][1], ml_score |-> out[i][2]] @@ t[i]]

Model ==
    /\ pc = "model"
    /\ IF Len(df) = 0
       THEN pc' = "failed" /\ df' = df
       ELSE /\ \E out \in [1..Len(df) -> Flags \X Scores] : df' = WithModel(df, out)
            /\ pc' = "severity"
    /\ UNCHANGED <<raw, district_risk, policy_alerts, early_warning_zones>>

(***************************************************************************)
(* 7. SEVERITY CLASSIFICATION                                              *)
(***************************************************************************)

\* quantile(0.01), as hundredths of the probability.
QuantilePct == 1

RECURSIVE InsertAsc(_, _)
InsertAsc(s, x) ==
    IF s = <<>> THEN <<x>>
    ELSE IF x <= Head(s) THEN <<x>> \o s
         ELSE <<Head(s)>> \o InsertAsc(Tail(s), x)

RECURSIVE SortAsc(_)
SortAsc(s) == IF s = <<>> THEN <<>> ELSE InsertAsc(SortAsc(Tail(s)), Head(s))

MlScores(t) == [i \in 1..Len(t) |-> t[i].ml_score]

\* 100 times Series.quantile(0.01) with linear interpolation between the
\* order statistics around position (n - 1) * 0.01.
Quantile100(s) ==
    LET srt == SortAsc(s)
        h   == (Len(s) - 1) * QuantilePct
        lo  == (h \div 100) + 1
        hi  == IF lo + 1 <= Len(s) THEN lo + 1 ELSE lo
        f   == h % 100
    IN  srt[lo] * (100 - f) + srt[hi] * f

BelowCut(score, cut100) == 100 * score < cut100

\* The flag rule applied after the percentile rule.
SeverityFlagLast(flag, score, cut100) ==
    LET s0 == "NORMAL"
        s1 == IF BelowCut(score, cut100) THEN "SEVERE" ELSE s0
    IN  IF flag = -1 THEN "SUSPICIOUS" ELSE s1

\* Three assignments in order, each overriding the one before.
Severity(flag, score, cut100) ==
    LET s0 == "NORMAL"
        s1 == IF flag = -1 THEN "SUSPICIOUS" ELSE s0
    IN  IF BelowCut(score, cut100) THEN "SEVERE" ELSE s1

WithSeverity(t) ==
    [i \in 1..Len(t) |->
        [severity |-> Severity(t[i].ml_flag, t[i].ml_score, Quantile100(MlScores(t)))]
        @@ t[i]]

SeverityStep ==
    /\ pc = "severity"
    /\ df' = WithSeverity(df)
    /\ pc' = "explain"
    /\ UNCHANGED <<raw, district_risk, policy_alerts, early_warning_zones>>

(***************************************************************************)
(* 8. EXPLAINABILITY                                                       *)
(***************************************************************************)

\* ratio > n/100 and ratio < n/100 for a ratio <<num, den>>, den > 0.
RatioGT(y, n) == 100 * y[1] > n * y[2]

RatioLT(y, n) == 100 * y[1] < n * y[2]

\* The reasons in the order of the checks; joined with "; " on output.
explain(row) ==
    LET reasons ==
            (IF RatioGT(row.youth_ratio, 45) THEN <<"Youth-heavy population">> ELSE <<>>)
         \o (IF RatioLT(row.youth_ratio, 10) THEN <<"Ageing population">> ELSE <<>>)
         \o (IF ShockAbsGT(row.shock_score, 5) THEN <<"Sudden demographic shock">> ELSE <<>>)
         \o (IF 5 * Abs(row.pop_change) > row.total_population
             THEN <<"Large population swing">> ELSE <<>>)
    IN  IF reasons # <<>> THEN reasons ELSE <<"Multi-factor deviation">>

Explain ==
    /\ pc = "explain"
    /\ df' = [i \in 1..Len(df) |-> [reason |-> explain(df[i])] @@ df[i]]
    /\ pc' = "risk"
    /\ UNCHANGED <<raw, district_risk, policy_alerts, early_warning_zones>>

(***************************************************************************)
(* 9. CONFIDENCE, PERSISTENCE, IMPACT                                      *)
(***************************************************************************)

RECURSIVE MaxSeq(_)
MaxSeq(s) ==
    IF Len(s) = 1 THEN s[1]
    ELSE IF Head(s) >= MaxSeq(Tail(s)) THEN Head(s) ELSE MaxSeq(Tail(s))

RECURSIVE Flatten(_)
Flatten(ss) == IF ss = <<>> THEN <<>> ELSE Head(ss) \o Flatten(Tail(ss))

\* (ml_score / max).round(3), the values it can take: a division by 0 gives
\* NaN or an infinity.
Confidence(score, mx) ==
    IF mx = 0
    THEN {IF score = 0 THEN <<"nan">> ELSE IF score < 0 THEN <<"ninf">> ELSE <<"pinf">>}
    ELSE {<<"fin", v>> : v \in Roundings(1000 * score, mx)}

SameKey(a, b) == a.district = b.district /\ a.pincode = b.pincode

SamePincode(a, b) == a.pincode = b.pincode

KeyBefore(a, b) ==
    a.district < b.district \/ (a.district = b.district /\ a.pincode < b.pincode)

\* First rows of the (district, pincode) groups, in key order.
GroupHeads(t) ==
    LET firsts == {i \in 1..Len(t) : \A j \in 1..(i - 1) : ~SameKey(t[j], t[i])}
        place(i) == 1 + Cardinality({j \in firsts : KeyBefore(t[j], t[i])})
    IN  [k \in 1..Cardinality(firsts) |-> CHOOSE i \in firsts : place(i) = k]

CountSevere(t, Same(_, _), r) ==
    Cardinality({j \in 1..Len(t) : Same(t[j], r) /\ t[j].is_severe})

CountGroup(t, Same(_, _), r) ==
    Cardinality({j \in 1..Len(t) : Same(t[j], r)})

\* One row per table row instead of one per group.
PersistenceTableUngrouped(t) ==
    [k \in 1..Len(t) |->
        [district |-> t[k].district, pincode |-> t[k].pincode,
         persistence |-> <<CountSevere(t, SameKey, t[k]), CountGroup(t, SameKey, t[k])>>]]

\* Grouped on pincode alone.
PersistenceTableByPincode(t) ==
    LET heads == GroupHeads(t)
    IN  [k \in 1..Len(heads) |->
            [district |-> t[heads[k]].district, pincode |-> t[heads[k]].pincode,
             persistence |-> <<CountSevere(t, SamePincode, t[heads[k]]),
                               CountGroup(t, SamePincode, t[heads[k]])>>]]

\* groupby(["district", "pincode"])["is_severe"].mean().reset_index()
PersistenceTable(t) ==
    LET heads == GroupHeads(t)
    IN  [k \in 1..Len(heads) |->
            [district |-> t[heads[k]].district, pincode |-> t[heads[k]].pincode,
             persistence |-> <<CountSevere(t, SameKey, t[heads[k]]),
                               CountGroup(t, SameKey, t[heads[k]])>>]]

\* merge(how="left"): every left row once per matching right row, in left
\* order; NaN in the new column for a left row with no match.
MergePersistence(left, right) ==
    Flatten([i \in 1..Len(left) |->
        LET m == SelectSeq(right, LAMBDA r : SameKey(r, left[i]))
        IN  IF m = <<>> THEN <<[persistence |-> NaN] @@ left[i]>>
            ELSE [k \in 1..Len(m) |-> [persistence |-> m[k].persistence] @@ left[i]]])

\* 200 * np.log1p(total_population), the log term of impact_score in
\* thousandths, as <<whole part, millionths of the rest, cut off>>; tabulated
\* for the totals 1..20.
Log1p200(t) ==
    CASE t = 1 -> <<138, 629436>> [] t = 2 -> <<219, 722457>>
      [] t = 3 -> <<277, 258872>> [] t = 4 -> <<321, 887582>>
      [] t = 5 -> <<358, 351893>> [] t = 6 -> <<389, 182029>>
      [] t = 7 -> <<415, 888308>> [] t = 8 -> <<439, 444915>>
      [] t = 9 -> <<460, 517018>> [] t = 10 -> <<479, 579054>>
      [] t = 11 -> <<496, 981329>> [] t = 12 -> <<512, 989871>>
      [] t = 13 -> <<527, 811465>> [] t = 14 -> <<541, 610040>>
      [] t = 15 -> <<554, 517744>> [] t = 16 -> <<566, 642668>>
      [] t = 17 -> <<578, 74351>> [] t = 18 -> <<588, 887795>>
      [] t = 19 -> <<599, 146454>> [] t = 20 -> <<608, 904487>>

\* (confidence*0.4 + persistence*0.4 + log1p(total)*0.2).round(3), the values
\* it can take.  In thousandths the sum is q + r/d + L[1] + L[2]/10^6 with
\* (2*c*m + 2000*k)/(5*m) = q + r/d, and x below is the part after the whole
\* numbers, in units of 1/(d * 10^6); the cut-off table entry leaves it
\* between x and x + d.
ImpactScore(conf, pers, total) ==
    IF conf[1] = "nan" \/ IsNaN(pers) THEN {<<"nan">>}
    ELSE IF conf[1] # "fin" THEN {conf}
    ELSE LET n == 2 * conf[2] * pers[2] + 2000 * pers[1]
             d == 5 * pers[2]
             q == n \div d
             r == n - q * d
             L == Log1p200(total)
             x == r * 1000000 + L[2] * d
             half == d * 500000
             up(y) == IF y < half THEN 0 ELSE IF y < 3 * half THEN 1 ELSE 2
         IN  {<<"fin", q + L[1] + u>> : u \in {up(x), up(x + d)}}

\* The confidence and is_severe columns, for each way of rounding.
WithConfidence(t) ==
    {[i \in 1..Len(t) |->
        [confidence |-> c[i], is_severe |-> t[i].severity = "SEVERE"] @@ t[i]] :
     c \in PickEach([i \in 1..Len(t) |->
                        Confidence(t[i].ml_score, MaxSeq(MlScores(t)))])}

\* The impact_score column, for each way of rounding.
WithImpact(t) ==
    {[i \in 1..Len(t) |-> [impact_score |-> x[i]] @@ t[i]] :
     x \in PickEach([i \in 1..Len(t) |->
                        ImpactScore(t[i].confidence, t[i].persistence,
                                    t[i].total_population)])}

Risk ==
    /\ pc = "risk"
    /\ \E scored \in WithConfidence(df) :
         df' \in WithImpact(MergePersistence(scored, PersistenceTable(scored)))
    /\ pc' = "policy"
    /\ UNCHANGED <<raw, district_risk, policy_alerts, early_warning_zones>>

(***************************************************************************)
(* 10. POLICY ACTION ENGINE                                                *)
(***************************************************************************)

\* score > n/1000; False for NaN.
ScoreGT(score, n) ==
    score[1] = "pinf" \/ (score[1] = "fin" /\ score[2] > n)

\* The boundaries taken inclusively.
actionInclusive(score) ==
    IF score[1] = "pinf" \/ (score[1] = "fin" /\ score[2] >= 850)
    THEN "Immediate audit & field verification"
    ELSE IF score[1] = "fin" /\ score[2] >= 650 THEN "Targeted demographic investigation"
    ELSE IF score[1] = "fin" /\ score[2] >= 450 THEN "Monitor closely"
    ELSE "No action"

action(score) ==
    IF ScoreGT(score, 850) THEN "Immediate audit & field verification"
    ELSE IF ScoreGT(score, 650) THEN "Targeted demographic investigation"
    ELSE IF ScoreGT(score, 450) THEN "Monitor closely"
    ELSE "No action"

Policy ==
    /\ pc = "policy"
    /\ df' = [i \in 1..Len(df) |->
                [recommended_action |-> action(df[i].impact_score)] @@ df[i]]
    /\ pc' = "peer"
    /\ UNCHANGED <<raw, district_risk, policy_alerts, early_warning_zones>>

(***************************************************************************)
(* 11. PEER COMPARISON (STATE BASELINE)                                    *)
(***************************************************************************)

RECURSIVE Product(_)
Product(s) == IF s = <<>> THEN 1 ELSE Head(s) * Product(Tail(s))

SameState(a, b) == a.state = b.state

\* Mean of the youth ratios of the rows of r's state, as <<num, den>>.
StateMean(t, r) ==
    LET rows == SelectSeq(t, LAMBDA x : SameState(x, r))
        dens == [k \in 1..Len(rows) |-> rows[k].youth_ratio[2]]
        P    == Product(dens)
        nums == [k \in 1..Len(rows) |-> rows[k].youth_ratio[1] * (P \div dens[k])]
    IN  <<SumSeq(nums), P * Len(rows)>>

\* groupby("state")["youth_ratio"].mean().reset_index()
StateBaseline(t) ==
    LET firsts == {i \in 1..Len(t) : \A j \in 1..(i - 1) : ~SameState(t[j], t[i])}
        place(i) == 1 + Cardinality({j \in firsts : t[j].state < t[i].state})
    IN  [k \in 1..Cardinality(firsts) |->
            LET h == CHOOSE i \in firsts : place(i) = k
            IN  [state |-> t[h].state, state_avg_youth_ratio |-> StateMean(t, t[h])]]

MergeBaseline(left, right) ==
    Flatten([i \in 1..Len(left) |->
        LET m == SelectSeq(right, LAMBDA r : SameState(r, left[i]))
        IN  IF m = <<>> THEN <<[state_avg_youth_ratio |-> NaN] @@ left[i]>>
            ELSE [k \in 1..Len(m) |->
                    [state_avg_youth_ratio |-> m[k].state_avg_youth_ratio] @@ left[i]]])

\* (youth_ratio - state_avg_youth_ratio).round(3) in thousandths, the values
\* it can take.
PeerDeviation(y, avg) ==
    Roundings(1000 * (y[1] * avg[2] - avg[1] * y[2]), y[2] * avg[2])

Peer ==
    /\ pc = "peer"
    /\ LET joined == MergeBaseline(df, StateBaseline(df))
       IN  \E dev \in PickEach([i \in 1..Len(joined) |->
                        PeerDeviation(joined[i].youth_ratio,
                                      joined[i].state_avg_youth_ratio)]) :
             df' = [i \in 1..Len(joined) |-> [peer_deviation |-> dev[i]] @@ joined[i]]
    /\ pc' = "early_warning"
    /\ UNCHANGED <<raw, district_risk, policy_alerts, early_warning_zones>>

(***************************************************************************)
(* 12. EARLY WARNING ZONES                                                 *)
(***************************************************************************)

B2I(b) == IF b THEN 1 ELSE 0

\* persistence >= n/100; False for NaN.
RatioGE(y, n) == ~IsNaN(y) /\ 100 * y[1] >= n * y[2]

Votes(row) ==
    B2I(row.severity = "SUSPICIOUS")
    + B2I(RatioGE(row.persistence, 10))
    + B2I(ShockAbsGE(row.shock_score, 2))
    + B2I(Abs(row.peer_deviation) >= 100)

\* The vote alone.
EarlyWarningVoteOnly(row) == Votes(row) >= 2

EarlyWarning(row) == Votes(row) >= 2 /\ row.severity # "SEVERE"

EarlyWarningStep ==
    /\ pc = "early_warning"
    /\ df' = [i \in 1..Len(df) |-> [early_warning |-> EarlyWarning(df[i])] @@ df[i]]
    /\ pc' = "trust"
    /\ UNCHANGED <<raw, district_risk, policy_alerts, early_warning_zones>>

(***************************************************************************)
(* 13. DATA TRUST SCORE                                                    *)
(***************************************************************************)

\* (1 - (persistence*0.5 + severe*0.5)).clip(0, 1).round(2) in hundredths,
\* the values it can take.
DataTrustScore(pers, severe) ==
    IF IsNaN(pers) THEN {NaN}
    ELSE LET num == 100 * pers[2] - 50 * pers[1] - 50 * B2I(severe) * pers[2]
             lo  == IF num < 0 THEN 0 ELSE num
             cl  == IF lo > 100 * pers[2] THEN 100 * pers[2] ELSE lo
         IN  {<<v>> : v \in Roundings(cl, pers[2])}

Trust ==
    /\ pc = "trust"
    /\ \E score \in PickEach([i \in 1..Len(df) |->
                    DataTrustScore(df[i].persistence, df[i].severity = "SEVERE")]) :
         df' = [i \in 1..Len(df) |-> [data_trust_score |-> score[i]] @@ df[i]]
    /\ pc' = "aggregate"
    /\ UNCHANGED <<raw, district_risk, policy_alerts, early_warning_zones>>

(***************************************************************************)
(* 14. AGGREGATIONS                                                        *)
(***************************************************************************)

IsSevere(r) == r.severity = "SEVERE"

SevereDistricts(t) == {t[i].district : i \in {j \in 1..Len(t) : IsSevere(t[j])}}

DistrictGroup(t, d) == SelectSeq(t, LAMBDA r : IsSevere(r) /\ r.district = d)

\* mean() of impact_score over a group, which skips NaN: <<"fin", sum, count>>
\* of the values that are not NaN, or an infinity; NaN when none is left or
\* when both infinities occur.
MeanImpact(g) ==
    LET v     == SelectSeq([k \in 1..Len(g) |-> g[k].impact_score],
                           LAMBDA x : x[1] # "nan")
        kinds == {v[k][1] : k \in 1..Len(v)}
    IN  IF v = <<>> \/ {"ninf", "pinf"} \subseteq kinds THEN <<"nan">>
        ELSE IF "ninf" \in kinds THEN <<"ninf">>
        ELSE IF "pinf" \in kinds THEN <<"pinf">>
        ELSE <<"fin", SumSeq([k \in 1..Len(v) |-> v[k][2]]), Len(v)>>

\* value_counts().idxmax(): a most frequent reason; which one among equally
\* frequent reasons is left to the sort inside value_counts.
DominantReasons(g) ==
    LET count(x) == Cardinality({k \in 1..Len(g) : g[k].reason = x})
    IN  {g[k].reason : k \in {j \in 1..Len(g) :
            \A l \in 1..Len(g) : count(g[l].reason) <= count(g[j].reason)}}

RiskRows(t, d) ==
    {[district |-> d, severe_cases |-> Len(DistrictGroup(t, d)),
      avg_impact |-> MeanImpact(DistrictGroup(t, d)), dominant_reason |-> r] :
        r \in DominantReasons(DistrictGroup(t, d))}

\* a < b for two means or two scores, neither NaN.
MeanLess(a, b) ==
    IF a[1] = "fin" /\ b[1] = "fin"
    THEN IF Len(a) = 3 THEN a[2] * b[3] < b[2] * a[3] ELSE a[2] < b[2]
    ELSE (a[1] = "ninf" /\ b[1] # "ninf") \/ (a[1] # "pinf" /\ b[1] = "pinf")

\* Sorted with ascending=True.
RankBeforeAscending(a, b) ==
    b[1] = "nan" \/ (a[1] # "nan" /\ ~MeanLess(b, a))

\* sort_values(ascending=False): a may stand before b; NaN goes last.
RankBefore(a, b) ==
    b[1] = "nan" \/ (a[1] # "nan" /\ ~MeanLess(a, b))

\* The district rankings the aggregation can produce.
DistrictRisk(t) ==
    LET D == SevereDistricts(t)
        n == Cardinality(D)
    IN  {s \in [1..n -> UNION {RiskRows(t, d) : d \in D}] :
            /\ \A i, j \in 1..n : i # j => s[i].district # s[j].district
            /\ \A i \in 1..(n - 1) : RankBefore(s[i].avg_impact, s[i + 1].avg_impact)}

\* The SEVERE rows ordered by impact_score, highest first (row indices).
PolicyAlerts(t) ==
    LET sev == SelectSeq(t, IsSevere)
    IN  {[i \in 1..Len(sev) |-> sev[p[i]].idx] : p \in
            {q \in RowOrders(Len(sev)) :
                \A i \in 1..(Len(sev) - 1) :
                    RankBefore(sev[q[i]].impact_score, sev[q[i + 1]].impact_score)}}

EarlyWarningZones(t) ==
    LET z == SelectSeq(t, LAMBDA r : r.early_warning)
    IN  [i \in 1..Len(z) |-> z[i].idx]

Aggregate ==
    /\ pc = "aggregate"
    /\ district_risk' \in DistrictRisk(df)
    /\ policy_alerts' \in PolicyAlerts(df)
    /\ early_warning_zones' = EarlyWarningZones(df)
    /\ pc' = "done"
    /\ UNCHANGED <<raw, df>>

(***************************************************************************)
(* Loaded tables                                                           *)
(***************************************************************************)

RawRow(d, s, di, p, a, b) ==
    [date |-> d, state |-> s, district |-> di, pincode |-> p,
     demo_age_5_17 |-> a, demo_age_17_ |-> b]

\* pd.concat(..., ignore_index=True): row i carries index i.  idx stays with
\* the record through the sort and the joins, as the record's identity.
Indexed(t) == [i \in 1..Len(t) |-> [idx |-> i] @@ t[i]]

\* Rows for the feature builder: dated records of two pincodes, and records
\* with an unparseable date, a non-numeric, zero or negative count.
FeatureRows ==
    {RawRow(d, 1, 1, p, <<1>>, b) : d \in {1, 2}, p \in {1, 2}, b \in {<<0>>, <<1>>, <<3>>}}
    \cup {RawRow(NaT, 1, 1, 1, <<1>>, <<1>>),
          RawRow(1, 1, 1, 1, NaN, <<2>>), RawRow(1, 1, 1, 1, <<2>>, NaN),
          RawRow(1, 1, 1, 1, NaN, NaN),
          RawRow(1, 1, 1, 1, <<0>>, <<0>>), RawRow(1, 1, 1, 1, <<-1>>, <<0>>),
          RawRow(1, 1, 1, 1, <<-1>>, <<3>>), RawRow(1, 1, 1, 1, <<3>>, <<-1>>)}

InitFeatures ==
    /\ pc = "clean"
    /\ raw \in {Indexed(t) : t \in SeqUpTo(FeatureRows, MaxRows) \ {<<>>}}
    /\ df = raw
    /\ district_risk = <<>>
    /\ policy_alerts = <<>>
    /\ early_warning_zones = <<>>

NextFeatures == Clean \/ Temporal

SpecFeatures == InitFeatures /\ [][NextFeatures]_vars

\* Rows of the full pipeline: three (district, pincode) keys over two
\* districts (each in its own state) and two pincodes, two age splits, and
\* one record with no population.
PipelineRows ==
    {RawRow(1, k[1], k[1], k[2], c[1], c[2]) :
        k \in {<<1, 1>>, <<1, 2>>, <<2, 1>>}, c \in {<<<<1>>, <<1>>>>, <<<<3>>, <<0>>>>}}
    \cup {RawRow(1, 1, 1, 1, <<0>>, <<0>>)}

\* The files hold the records in date order: row i is dated i.
Dated(t) == [i \in 1..Len(t) |-> [t[i] EXCEPT !.date = i]]

Init ==
    /\ pc = "clean"
    /\ raw \in {Indexed(Dated(t)) : t \in SeqUpTo(PipelineRows, MaxRecords) \ {<<>>}}
    /\ df = raw
    /\ district_risk = <<>>
    /\ policy_alerts = <<>>
    /\ early_warning_zones = <<>>

Next ==
    \/ Clean
    \/ Temporal
    \/ Model
    \/ SeverityStep
    \/ Explain
    \/ Risk
    \/ Policy
    \/ Peer
    \/ EarlyWarningStep
    \/ Trust
    \/ Aggregate

Spec == Init /\ [][Next]_vars

(***************************************************************************)
(* The policy engine on its own: one scored row, any impact_score.         *)
(***************************************************************************)

ImpactScores ==
    {<<"nan">>, <<"ninf">>, <<"pinf">>}
    \cup {<<"fin", v>> : v \in (0 - MaxScore)..(2 * MaxScore)}

InitPolicy ==
    /\ pc = "policy"
    /\ raw = <<>>
    /\ df \in {<<[idx |-> 1, impact_score |-> x]>> : x \in ImpactScores}
    /\ district_risk = <<>>
    /\ policy_alerts = <<>>
    /\ early_warning_zones = <<>>

NextPolicy == Policy

SpecPolicy == InitPolicy /\ [][NextPolicy]_vars

(***************************************************************************)
(* The aggregation on its own.  Two SEVERE rows need at least 102 rows in  *)
(* the scored table (the 1st-percentile cut), so the scored rows the       *)
(* aggregation reads are drawn directly.                                   *)
(***************************************************************************)

ScoredRow(di, sev, imp, why, ew) ==
    [district |-> di, severity |-> sev, impact_score |-> imp, reason |-> why,
     early_warning |-> ew]

ScoredRows ==
    {ScoredRow(di, "SEVERE", <<"fin", v>>, why, FALSE) :
        di \in {1, 2}, v \in {300, 600, 900},
        why \in {<<"Youth-heavy population">>, <<"Multi-factor deviation">>}}
    \cup {ScoredRow(di, "NORMAL", <<"fin", 600>>, <<"Multi-factor deviation">>, ew) :
            di \in {1, 2}, ew \in BOOLEAN}

InitRank ==
    /\ pc = "aggregate"
    /\ raw = <<>>
    /\ df \in {Indexed(t) : t \in SeqUpTo(ScoredRows, MaxRows) \ {<<>>}}
    /\ district_risk = <<>>
    /\ policy_alerts = <<>>
    /\ early_warning_zones = <<>>

NextRank == Aggregate

SpecRank == InitRank /\ [][NextRank]_vars

(***************************************************************************)
(* Properties                                                              *)
(***************************************************************************)

Rows == 1..Len(df)

\* Stages at which the named column is in df.
HasShock == pc \notin {"clean", "temporal"}

HasSeverity == pc \notin {"clean", "temporal", "model", "failed", "severity"}

HasPersistence == pc \in {"policy", "peer", "early_warning", "trust", "aggregate", "done"}

HasEarlyWarning == pc \in {"trust", "aggregate", "done"}

\* C1: in the scored table every SEVERE record has early_warning False,
\* whatever its votes.
C1_SevereExcludesEarlyWarning ==
    HasEarlyWarning =>
        \A i \in Rows : df[i].severity = "SEVERE" => df[i].early_warning = FALSE

\* A SEVERE record whose vote count reaches 2 and which is not flagged.
C1_Witness ==
    /\ pc = "done"
    /\ \E i \in Rows :
        /\ df[i].severity = "SEVERE"
        /\ B2I(RatioGE(df[i].persistence, 10)) + B2I(Abs(df[i].peer_deviation) >= 100) >= 2
        /\ df[i].early_warning = FALSE

\* C2: every record has exactly one of the three severities: SEVERE exactly
\* when its ml_score is strictly below the 1st-percentile value of the whole
\* table (whatever its flag), otherwise SUSPICIOUS exactly when flagged an
\* outlier, otherwise NORMAL.
C2_SeverityRule ==
    HasSeverity =>
        \A i \in Rows :
            LET below == 100 * df[i].ml_score < Quantile100(MlScores(df))
            IN  /\ df[i].severity \in {"NORMAL", "SUSPICIOUS", "SEVERE"}
                /\ (df[i].severity = "SEVERE") <=> below
                /\ (df[i].severity = "SUSPICIOUS") <=> (~below /\ df[i].ml_flag = -1)
                /\ (df[i].severity = "NORMAL") <=> (~below /\ df[i].ml_flag # -1)

\* An inlier below the cut is SEVERE, an outlier above it SUSPICIOUS.
C2_Witness ==
    /\ pc = "done"
    /\ \E i, j \in Rows :
        /\ df[i].ml_flag = 1 /\ df[i].severity = "SEVERE"
        /\ df[j].ml_flag = -1 /\ df[j].severity = "SUSPICIOUS"

\* The nearest earlier row of the same pincode, 0 if there is none.
PrevOfPincode(i) ==
    LET earlier == {j \in 1..(i - 1) : df[j].pincode = df[i].pincode}
    IN  IF earlier = {} THEN 0 ELSE CHOOSE j \in earlier : \A k \in earlier : k <= j

\* C3: the table is in ascending date order and pop_change is the total
\* minus the total of the nearest earlier record of the same pincode, 0 for
\* the first record of a pincode.
C3_PopChangeWithinPincode ==
    pc = "model" =>
        /\ \A i \in 1..(Len(df) - 1) : df[i].date <= df[i + 1].date
        /\ \A i \in Rows :
            df[i].pop_change =
                IF PrevOfPincode(i) = 0 THEN 0
                ELSE df[i].total_population - df[PrevOfPincode(i)].total_population

\* Two records of one pincode with a record of another pincode between them,
\* in a table the sort has reordered.
C3_Witness ==
    /\ pc = "model"
    /\ Len(df) = 3
    /\ df[1].idx # 1
    /\ df[1].pincode = df[3].pincode /\ df[2].pincode # df[1].pincode
    /\ df[2].total_population # df[1].total_population
    /\ df[3].pop_change # 0
    /\ df[3].pop_change = df[3].total_population - df[1].total_population
    /\ df[2].pop_change = 0

Actions ==
    {"Immediate audit & field verification", "Targeted demographic investigation",
     "Monitor closely", "No action"}

\* C4: recommended_action is one of the four strings, fixed by the band of
\* impact_score: above 0.85, above 0.65 up to 0.85, above 0.45 up to 0.65,
\* and 0.45 or less; a score on a boundary is in the lower band.
C4_ActionBands ==
    pc = "peer" =>
        \A i \in Rows :
            LET x == df[i].impact_score
                a == df[i].recommended_action
            IN  /\ a \in Actions
                /\ x[1] = "fin" =>
                    /\ (a = "Immediate audit & field verification") <=> (x[2] >= 851)
                    /\ (a = "Targeted demographic investigation") <=> (x[2] \in 651..850)
                    /\ (a = "Monitor closely") <=> (x[2] \in 451..650)
                    /\ (a = "No action") <=> (x[2] <= 450)

\* A score of exactly 0.85 falls in the lower band.
C4_Witness ==
    /\ pc = "peer"
    /\ \E i \in Rows :
        /\ df[i].impact_score = <<"fin", 850>>
        /\ df[i].recommended_action = "Targeted demographic investigation"

InUnit(y) == ~IsNaN(y) /\ y[2] > 0 /\ 0 <= y[1] /\ y[1] <= y[2]

\* C5 as stated: every kept record has 0 <= youth_ratio <= 1, for any numeric
\* counts.
C5_YouthRatioInUnit ==
    pc \in {"temporal", "model"} => \A i \in Rows : InUnit(df[i].youth_ratio)

\* C5, amended: every kept record whose two counts are non-negative has
\* 0 <= youth_ratio <= 1.
C5_YouthRatioInUnitNonNegative ==
    pc \in {"temporal", "model"} =>
        \A i \in Rows :
            (df[i].demo_age_5_17[1] >= 0 /\ df[i].demo_age_17_[1] >= 0)
                => InUnit(df[i].youth_ratio)

\* A kept record with non-negative counts and a ratio strictly inside (0, 1),
\* and a kept record with youth count 3 and no adults.
C5_Witness ==
    /\ pc = "temporal"
    /\ \E i, j \in Rows :
        /\ df[i].demo_age_5_17[1] > 0 /\ df[i].demo_age_17_[1] > 0
        /\ 0 < df[i].youth_ratio[1] /\ df[i].youth_ratio[1] < df[i].youth_ratio[2]
        /\ df[j].demo_age_17_[1] = 0 /\ df[j].youth_ratio[1] = df[j].youth_ratio[2]

\* C6: when the standard deviation of pop_change is 0 or undefined, every
\* shock_score is defined and 0 at every stage that reads it.
C6_ShockZeroWhenDegenerate ==
    (HasShock /\ (SigmaUndefined(PopChanges(df)) \/ SigmaZero(PopChanges(df)))) =>
        \A i \in Rows : ~IsNaN(df[i].shock_score) /\ df[i].shock_score[1] = 0

KeptRows(k) == {i \in Rows : df[i].idx = k}

OneMissing(r) == IsNaN(r.demo_age_5_17) # IsNaN(r.demo_age_17_)

OtherCount(r) == IF IsNaN(r.demo_age_5_17) THEN r.demo_age_17_[1] ELSE r.demo_age_5_17[1]

\* C7 as stated: a record with a valid date, one non-numeric count and the
\* other count positive is kept, with total_population the other count.
C7_MissingCountAsZero ==
    pc = "temporal" =>
        \A k \in 1..Len(raw) :
            (raw[k].date # NaT /\ OneMissing(raw[k]) /\ OtherCount(raw[k]) > 0) =>
                \E i \in KeptRows(k) : df[i].total_population = OtherCount(raw[k])

\* C7, amended: a record is kept exactly when its date is valid, both counts
\* are numeric and their sum is above 0, and total_population is then that
\* sum; a record with a non-numeric count is excluded.
C7_MissingCountExcluded ==
    pc = "temporal" =>
        \A k \in 1..Len(raw) :
            LET r == raw[k]
                numeric == ~IsNaN(r.demo_age_5_17) /\ ~IsNaN(r.demo_age_17_)
            IN  /\ (KeptRows(k) # {}) <=>
                        (r.date # NaT /\ numeric
                         /\ r.demo_age_5_17[1] + r.demo_age_17_[1] > 0)
                /\ \A i \in KeptRows(k) :
                        df[i].total_population = r.demo_age_5_17[1] + r.demo_age_17_[1]

\* A dated record with one non-numeric and one positive count has been
\* dropped while another record was kept.
C7_Witness ==
    /\ pc = "temporal"
    /\ Len(df) >= 1
    /\ \E k \in 1..Len(raw) :
        /\ raw[k].date # NaT /\ OneMissing(raw[k]) /\ OtherCount(raw[k]) > 0
        /\ KeptRows(k) = {}

\* C8: records with the same (district, pincode) carry the same persistence,
\* the fraction of SEVERE records among the records of that key.
C8_PersistenceBroadcast ==
    HasPersistence =>
        \A i \in Rows :
            LET grp == {j \in Rows : df[j].district = df[i].district
                                     /\ df[j].pincode = df[i].pincode}
                sev == {j \in grp : df[j].severity = "SEVERE"}
            IN  /\ ~IsNaN(df[i].persistence)
                /\ df[i].persistence[1] * Cardinality(grp)
                        = Cardinality(sev) * df[i].persistence[2]
                /\ \A j \in grp : df[j].persistence = df[i].persistence

\* Two records of one key, one of them SEVERE, both with persistence 1/2.
C8_Witness ==
    /\ pc = "done"
    /\ \E i, j \in Rows :
        /\ i # j /\ SameKey(df[i], df[j])
        /\ df[i].severity = "SEVERE" /\ df[j].severity # "SEVERE"
        /\ df[i].persistence = <<1, 2>> /\ df[j].persistence = <<1, 2>>

SevereOf(d) == {i \in Rows : df[i].severity = "SEVERE" /\ df[i].district = d}

RECURSIVE ImpactSum(_)
ImpactSum(S) ==
    IF S = {} THEN 0
    ELSE LET i == CHOOSE x \in S : TRUE
         IN  df[i].impact_score[2] + ImpactSum(S \ {i})

\* C9: the district ranking has one row for each district with at least one
\* SEVERE record and no other row, severe_cases counts them, and the rows are
\* in non-increasing order of the mean impact_score of those records.
C9_DistrictRanking ==
    pc = "done" =>
        /\ \A d \in {df[i].district : i \in Rows} :
            Cardinality({k \in 1..Len(district_risk) : district_risk[k].district = d})
                = IF SevereOf(d) # {} THEN 1 ELSE 0
        /\ \A k \in 1..Len(district_risk) :
            /\ district_risk[k].severe_cases >= 1
            /\ district_risk[k].severe_cases = Cardinality(SevereOf(district_risk[k].district))
        /\ \A k \in 1..(Len(district_risk) - 1) :
            LET a == SevereOf(district_risk[k].district)
                b == SevereOf(district_risk[k + 1].district)
            IN  ImpactSum(a) * Cardinality(b) >= ImpactSum(b) * Cardinality(a)

\* District 2 ranks first with one SEVERE record against two in district 1,
\* whose impact sum is larger but whose mean is smaller.
C9_Witness ==
    /\ pc = "done"
    /\ Len(district_risk) = 2
    /\ district_risk[1].district = 2 /\ district_risk[1].severe_cases = 1
    /\ district_risk[2].severe_cases = 2
    /\ ImpactSum(SevereOf(1)) > ImpactSum(SevereOf(2))

IdCount(t, k) == Cardinality({i \in 1..Len(t) : t[i].idx = k})

\* C10: after the validity filter every stage keeps the records: each step
\* leaves the number of rows of every loaded record unchanged, and no record
\* ever has two rows.
C10_RowsPreserved ==
    /\ [](\A k \in 1..Len(raw) : IdCount(df, k) <= 1)
    /\ [][pc # "clean" => \A k \in 1..Len(raw) : IdCount(df', k) = IdCount(df, k)]_vars

\* The finished table holds two records of one key and one state, both of
\* which went through the two joins.
C10_Witness ==
    /\ pc = "done"
    /\ Len(df) = 2
    /\ SameKey(df[1], df[2]) /\ SameState(df[1], df[2])
    /\ {df[1].idx, df[2].idx} = {1, 2}

====
